---- MODULE Spec2Model ----
(***************************************************************************)
(* Model of nbaio.util.AioUtils: the bounded-concurrency batch calls       *)
(* download_files and shell_cmds, and the single-task executors            *)
(* download_file / _download_core and shell_cmd that they run.             *)
(*                                                                         *)
(* The download command and shell_cmds_git_clone build a batch and hand it  *)
(* over (Spec); extract_zip / extract_tar with the extract command          *)
(* (SpecExtract) and a lone shell_cmd (SpecShell) have their own             *)
(* specifications over the same variables.                                   *)
(*                                                                         *)
(* One behaviour is one call.  The environment (HTTP server, filesystem,   *)
(* process spawner) is nondeterministic: every operating-system or         *)
(* network operation the code performs may succeed or fail.                *)
(***************************************************************************)
EXTENDS Integers, Sequences, FiniteSets, TLC

\* ------------------------------------------------------------------ bounds
MaxTasks == 2        \* longest input list of a batch
MaxConcurrent == 2   \* largest max_concurrent tried (smallest is -1)
MaxChunks == 2       \* chunks in the longest response body
MaxMembers == 2      \* members of the largest archive

\* ------------------------------------------------------- the environment
Urls == {"u1", "u2", "u404"}
Paths == {"p1", "p2"}
Commands == {"echo one", "echo two"}
ExitCodes == {0, 1}

\* HTTP status the server answers for a URL.
Status(url) == IF url = "u404" THEN 404 ELSE 200

\* Number of chunks the server streams for a URL.
BodyLen(url) == IF url = "u2" THEN 1 ELSE MaxChunks

\* The response body of a URL: chunk k of url is the pair <<url, k>>.
Body(url) == [k \in 1..BodyLen(url) |-> <<url, k>>]

\* What a launched command prints on stdout.
Stdout(cmd) ==
    CASE cmd = "echo one" -> "one"
      [] cmd = "echo two" -> "two"
      [] OTHER -> ""

NoFile == [exists |-> FALSE, content |-> <<>>]
Hole == <<"hole", 0>>

VARIABLES
    call,            \* "download_files" | "shell_cmds" | "download_file",
                     \* or "download": the download command, before its batch,
                     \* or "shell_cmds_git_clone", before its batch
    argv,            \* the urls given to the download command, or the
                     \* clones given to shell_cmds_git_clone (else <<>>)
    max_concurrent,  \* the max_concurrent argument
    inputs,          \* the downloads / commands list (one record per task)
    batch_pc,        \* position of the calling coroutine
    total_tokens,    \* limiter.total_tokens once the limiter exists
    borrowers,       \* tasks holding a token of the limiter
    cancelled,       \* the task group's cancel scope has been cancelled
    task_pc,         \* position of each task
    results,         \* the results list
    slot_writers,    \* per result slot, the tasks that assigned it, in order
    returned,        \* per task, {} or {value its executor returned}
    acquires,        \* per task, number of limiter acquisitions
    releases,        \* per task, number of limiter releases
    fs,              \* path -> file
    fh,              \* per task, state of its open file: "none"|"open"|"orphan"
    pos,             \* per task, chunks written through its open file
    xin,             \* extraction: the arguments and the archive given
    xpc,             \* extraction: position of the call
    xk,              \* extraction: members of the archive handled so far
    xfs,             \* extraction: dest_dir, the files in and outside it,
                     \*             and whether the archive file exists
    xout,            \* extraction: decoder chosen, success flag, error
    sin,             \* shell_cmd: the arguments and the platform
    spc,             \* shell_cmd: position of the call
    sout,            \* shell_cmd: command handed to run_process, what ran,
                     \*            the returned tuple
    cli,             \* the command of the front end that makes the call:
                     \* "download" | "shell" | "git_clone", or "none"
    echoed,          \* the summary lines the command has written
    exit_code,       \* {} while the command runs, then {its exit code}
    gin,             \* git_clone command: args and separator
    gpc,             \* git_clone command: position
    gst,             \* git_clone command: its locals and what it printed
    uin,             \* remove_directory / check_file_size: the arguments
    upc,             \* remove_directory / check_file_size: position
    ufs,             \* remove_directory / check_file_size: the path on disk
    uout             \* remove_directory / check_file_size: what each call
                     \*   returned or raised, and what it printed

xvars == <<xin, xpc, xk, xfs, xout>>
svars == <<sin, spc, sout>>
front == <<cli, echoed, exit_code>>
gvars == <<gin, gpc, gst>>
uvars == <<uin, upc, ufs, uout>>
cfg == <<call, max_concurrent, inputs, argv, xvars, svars, front, gvars, uvars>>
files == <<fs, fh, pos>>
vars == <<call, argv, max_concurrent, inputs, batch_pc, total_tokens, borrowers,
          cancelled, task_pc, results, slot_writers, returned, acquires,
          releases, fs, fh, pos, xin, xpc, xk, xfs, xout, sin, spc, sout,
          cli, echoed, exit_code, gin, gpc, gst, uin, upc, ufs, uout>>

Tasks == 1..Len(inputs)

IsBatch == call \in {"download_files", "shell_cmds"}

Min(a, b) == IF a < b THEN a ELSE b

\* Python truthiness of an Optional[int] held as {} (None) or {n}.
Truthy(opt) == opt # {} /\ opt # {0}

\* Sequences over S of length 0..n.
SeqUpTo(S, n) == UNION {[1..k -> S] : k \in 0..n}

DownloadInputs == [url : Urls, dest : Paths, expected_size : {{}}]
SingleDownloadInputs ==
    [url : Urls, dest : {"p1"}, expected_size : {{}} \cup {{n} : n \in 0..MaxChunks}]
ShellInputs == [cmd : Commands]

\* [False] * len(downloads)   /   [(-1, "", "")] * len(commands)
Placeholder == IF call = "shell_cmds" THEN <<-1, "", "">> ELSE FALSE
\* A results list that is never empty.
PlaceholdersNeverEmpty(n) == [k \in 1..(IF n = 0 THEN 1 ELSE n) |-> Placeholder]

Placeholders(n) == [k \in 1..n |-> Placeholder]

\* url.split("/") of the URLs: u1 and u2 name a file f on two hosts, u404
\* ends with a slash.
Segments(url) ==
    CASE url = "u1" -> <<"http:", "", "h1", "f">>
      [] url = "u2" -> <<"http:", "", "h2", "f">>
      [] OTHER -> <<"http:", "", "h1", "">>

\* filename = url.split("/")[-1] or "downloaded_file"
FileName(url) ==
    LET last == Segments(url)[Len(Segments(url))]
    IN  IF last = "" THEN "downloaded_file" ELSE last

\* output / filename: p1 is output/f, p2 is output/downloaded_file.
OutputJoin(filename) == IF filename = "f" THEN "p1" ELSE "p2"

\* downloads.append((url, output / filename)) for url in urls
CliDownloads(urls) ==
    [k \in 1..Len(urls) |->
        [url |-> urls[k], dest |-> OutputJoin(FileName(urls[k])),
         expected_size |-> {}]]

\* shell_cmds_git_clone: the repositories, and dest as None, "" or a name
\* (an Optional[str]: {} is None, {s} is the string s).
Repos == {"r1", "r2"}
Dests == {{}, {""}, {"d1"}}
Clones == [url : Repos, dest : Dests]

\* A command vector that always ends with str(dest).
GitCloneCommandAlwaysDest(clone) ==
    <<"git", "clone", clone.url>>
      \o (IF clone.dest = {} THEN <<"None">>
          ELSE <<CHOOSE d \in clone.dest : TRUE>>)

\* cmd = ["git", "clone", url];  if dest: cmd.append(str(dest))
GitCloneCommand(clone) ==
    <<"git", "clone", clone.url>>
      \o (IF clone.dest # {} /\ clone.dest # {""}
          THEN <<CHOOSE d \in clone.dest : TRUE>>
          ELSE <<>>)

\* commands: one per pair, in the order of the pairs.  A command of the
\* batch is a record of its program (cmd) and its argument vector (argv).
GitCloneCommands(clones) ==
    [i \in 1..Len(clones) |-> [cmd |-> "git", argv |-> GitCloneCommand(clones[i])]]

\* No extraction is in progress.
ExtractIdle ==
    /\ xin = <<>>
    /\ xpc = "idle"
    /\ xk = 0
    /\ xfs = <<>>
    /\ xout = <<>>

\* The git_clone command is not parsing its arguments.
GitCloneIdle ==
    /\ gin = <<>>
    /\ gpc = "idle"
    /\ gst = <<>>

\* Neither remove_directory nor check_file_size is being called.
UtilIdle ==
    /\ uin = <<>>
    /\ upc = "idle"
    /\ ufs = <<>>
    /\ uout = <<>>

\* No command of the front end is running.
FrontIdle ==
    /\ cli = "none"
    /\ echoed = <<>>
    /\ exit_code = {}

\* No lone shell_cmd call is in progress.
ShellIdle ==
    /\ sin = <<>>
    /\ spc = "idle"
    /\ sout = <<>>

Init ==
    /\ ExtractIdle
    /\ ShellIdle
    /\ GitCloneIdle
    /\ UtilIdle
    /\ echoed = <<>>
    /\ exit_code = {}
    /\ call \in {"download_files", "shell_cmds", "download_file", "download",
                 "shell_cmds_git_clone"}
    /\ max_concurrent \in (0 - 1)..MaxConcurrent
    /\ inputs \in CASE call = "download_files" -> SeqUpTo(DownloadInputs, MaxTasks)
                    [] call = "shell_cmds" -> SeqUpTo(ShellInputs, MaxTasks)
                    [] call \in {"download", "shell_cmds_git_clone"} -> {<<>>}
                    [] OTHER -> [1..1 -> SingleDownloadInputs]
    /\ argv \in CASE call = "download" -> SeqUpTo(Urls, MaxTasks) \ {<<>>}
                  [] call = "shell_cmds_git_clone" -> SeqUpTo(Clones, MaxTasks)
                  [] OTHER -> {<<>>}
    /\ call = "download_file" => max_concurrent = 1
    /\ cli \in CASE call = "download" -> {"download"}
                 [] call = "shell_cmds" /\ inputs # <<>> -> {"none", "shell"}
                 [] call = "shell_cmds_git_clone" /\ argv # <<>>
                      /\ (\A k \in 1..Len(argv) : argv[k].dest # {})
                      -> {"none", "git_clone"}
                 [] OTHER -> {"none"}
    /\ batch_pc = CASE call = "download_file" -> "single"
                     [] call = "download" -> "cli"
                     [] call = "shell_cmds_git_clone" -> "clone"
                     [] OTHER -> "start"
    /\ total_tokens = 0
    /\ borrowers = {}
    /\ cancelled = FALSE
    /\ task_pc = [i \in Tasks |-> IF call = "download_file" THEN "acquired" ELSE "unstarted"]
    /\ results = <<>>
    /\ slot_writers = <<>>
    /\ returned = [i \in Tasks |-> {}]
    /\ acquires = [i \in Tasks |-> 0]
    /\ releases = [i \in Tasks |-> 0]
    /\ fs = [p \in Paths |-> NoFile]
    /\ fh = [i \in Tasks |-> "none"]
    /\ pos = [i \in Tasks |-> 0]

\* ---------------------------------------------------- the download command
\* cli.download: output.mkdir(...), the downloads list built from the urls,
\* then anyio.run(do_download), which calls download_files.
CliDownload ==
    /\ call = "download"
    /\ batch_pc = "cli"
    /\ \E mkdir_ok \in BOOLEAN :
         IF mkdir_ok
         THEN /\ call' = "download_files"
              /\ inputs' = CliDownloads(argv)
              /\ batch_pc' = "start"
              /\ task_pc' = [i \in 1..Len(argv) |-> "unstarted"]
              /\ returned' = [i \in 1..Len(argv) |-> {}]
              /\ acquires' = [i \in 1..Len(argv) |-> 0]
              /\ releases' = [i \in 1..Len(argv) |-> 0]
              /\ fh' = [i \in 1..Len(argv) |-> "none"]
              /\ pos' = [i \in 1..Len(argv) |-> 0]
         ELSE /\ batch_pc' = "raised"
              /\ UNCHANGED <<call, inputs, task_pc, returned, acquires,
                             releases, fh, pos>>
    /\ UNCHANGED <<argv, max_concurrent, total_tokens, borrowers, cancelled,
                   results, slot_writers, fs, xvars, svars, front, gvars, uvars>>

\* shell_cmds_git_clone: the loop that builds the commands, then the call of
\* shell_cmds with them.
GitClone ==
    /\ call = "shell_cmds_git_clone"
    /\ batch_pc = "clone"
    /\ call' = "shell_cmds"
    /\ inputs' = GitCloneCommands(argv)
    /\ batch_pc' = "start"
    /\ task_pc' = [i \in 1..Len(argv) |-> "unstarted"]
    /\ returned' = [i \in 1..Len(argv) |-> {}]
    /\ acquires' = [i \in 1..Len(argv) |-> 0]
    /\ releases' = [i \in 1..Len(argv) |-> 0]
    /\ fh' = [i \in 1..Len(argv) |-> "none"]
    /\ pos' = [i \in 1..Len(argv) |-> 0]
    /\ UNCHANGED <<argv, max_concurrent, total_tokens, borrowers, cancelled,
                   results, slot_writers, fs, xvars, svars, front, gvars, uvars>>

\* ------------------------------------------------------------ the limiter
\* anyio.CapacityLimiter(max_concurrent).  A negative total raises ValueError
\* in every release of the library; a total of 0 raises in the older releases
\* and builds a limiter that never hands out a token in the newer ones.  The
\* code does not check max_concurrent itself, so both outcomes are possible.
LimiterOutcomes(n) ==
    IF n >= 1 THEN {"built"}
    ELSE IF n = 0 THEN {"built", "ValueError"}
    ELSE {"ValueError"}

\* A limiter that lets one task too many in.
LimiterHasCapacityOffByOne(b, n) == Cardinality(b) <= n

\* `async with limiter` entry: a token is free.
LimiterHasCapacity(b, n) == Cardinality(b) < n

\* A task that leaves without giving its token back.
LimiterExitKeepsToken(b, i) == b

\* `async with limiter` exit: the task gives its token back.
LimiterExit(b, i) == b \ {i}

\* Results stored in completion order: the first slot nobody has assigned.
ResultSlotCompletionOrder(index, writers) ==
    IF \E k \in DOMAIN writers : writers[k] = <<>>
    THEN CHOOSE k \in DOMAIN writers :
             /\ writers[k] = <<>>
             /\ \A j \in 1..(k - 1) : writers[j] # <<>>
    ELSE index

\* results[index] = ... : the slot a task assigns.
ResultSlot(index, writers) == index

\* --------------------------------------------------------- the batch call
\* limiter = anyio.CapacityLimiter(max_concurrent); results = [...] * len(..)
CreateLimiter ==
    /\ IsBatch
    /\ batch_pc = "start"
    /\ \E o \in LimiterOutcomes(max_concurrent) :
         IF o = "built"
         THEN /\ total_tokens' = max_concurrent
              /\ results' = Placeholders(Len(inputs))
              /\ slot_writers' = [k \in DOMAIN results' |-> <<>>]
              /\ batch_pc' = IF Len(inputs) = 0 THEN "joining" ELSE "launching"
         ELSE /\ batch_pc' = "raised"
              /\ UNCHANGED <<total_tokens, results, slot_writers>>
    /\ UNCHANGED <<cfg, borrowers, cancelled, task_pc, returned, acquires,
                   releases, files>>

\* for i, x in enumerate(inputs): tg.start_soon(..., i, x)
\* The loop does not await, so no task runs before the last one is started.
StartSoon ==
    /\ batch_pc = "launching"
    /\ LET i == CHOOSE k \in Tasks :
                   /\ task_pc[k] = "unstarted"
                   /\ \A j \in 1..(k - 1) : task_pc[j] # "unstarted"
       IN /\ task_pc' = [task_pc EXCEPT ![i] = "waiting"]
          /\ batch_pc' = IF i = Len(inputs) THEN "joining" ELSE "launching"
    /\ UNCHANGED <<cfg, total_tokens, borrowers, cancelled, results,
                   slot_writers, returned, acquires, releases, files>>

Terminal == {"done", "raised", "cancelled"}

\* Exit of `async with anyio.create_task_group()`: waits for every task; an
\* exception of a task leaves the group as an exception group.
Join ==
    /\ batch_pc = "joining"
    /\ \A i \in Tasks : task_pc[i] \in Terminal
    /\ batch_pc' = IF \E i \in Tasks : task_pc[i] = "raised"
                   THEN "raised" ELSE "returned"
    /\ UNCHANGED <<cfg, total_tokens, borrowers, cancelled, task_pc, results,
                   slot_writers, returned, acquires, releases, files>>

\* ---------------------------------------------------------------- a task
Running == batch_pc \in {"joining", "single"}

\* async with limiter:   (entry)
Acquire(i) ==
    /\ batch_pc = "joining"
    /\ task_pc[i] = "waiting"
    /\ ~cancelled
    /\ LimiterHasCapacity(borrowers, total_tokens)
    /\ borrowers' = borrowers \cup {i}
    /\ acquires' = [acquires EXCEPT ![i] = @ + 1]
    /\ task_pc' = [task_pc EXCEPT ![i] = "acquired"]
    /\ UNCHANGED <<cfg, batch_pc, total_tokens, cancelled, results,
                   slot_writers, returned, releases, files>>

\* The limiter part of a task leaving `async with limiter`.
LeaveLimiter(i) ==
    IF i \in borrowers
    THEN /\ borrowers' = LimiterExit(borrowers, i)
         /\ releases' = [releases EXCEPT ![i] = @ + 1]
    ELSE UNCHANGED <<borrowers, releases>>

\* The executor returned v: results[index] = v, then the limiter is left.
\* A lone download_file call hands v to its caller instead.
TaskReturns(i, v) ==
    /\ task_pc' = [task_pc EXCEPT ![i] = "done"]
    /\ returned' = [returned EXCEPT ![i] = {v}]
    /\ IF IsBatch
       THEN /\ results' = [results EXCEPT ![ResultSlot(i, slot_writers)] = v]
            /\ slot_writers' = [slot_writers EXCEPT
                                  ![ResultSlot(i, slot_writers)] = Append(@, i)]
            /\ LeaveLimiter(i)
            /\ UNCHANGED batch_pc
       ELSE /\ batch_pc' = "returned"
            /\ UNCHANGED <<results, slot_writers, borrowers, releases>>
    /\ UNCHANGED <<cfg, total_tokens, cancelled, acquires>>

\* The executor raised: the exception leaves `async with limiter` (which gives
\* the token back), ends the task and cancels the task group's scope.
TaskRaises(i) ==
    /\ task_pc' = [task_pc EXCEPT ![i] = "raised"]
    /\ IF IsBatch
       THEN /\ LeaveLimiter(i)
            /\ cancelled' = TRUE
            /\ UNCHANGED batch_pc
       ELSE /\ batch_pc' = "raised"
            /\ UNCHANGED <<borrowers, releases, cancelled>>
    /\ UNCHANGED <<cfg, total_tokens, results, slot_writers, returned, acquires>>

\* Positions at which a task is suspended in an await.
AwaitPoints == {"waiting", "acquired", "request", "open", "writing", "running"}

\* The cancelled scope delivers the cancellation to a task at an await.  It
\* is not an Exception, so _download_core's handler does not run and the file
\* written so far stays; `async with limiter` still gives the token back.
Cancel(i) ==
    /\ batch_pc = "joining"
    /\ cancelled
    /\ task_pc[i] \in AwaitPoints
    /\ task_pc' = [task_pc EXCEPT ![i] = "cancelled"]
    /\ LeaveLimiter(i)
    /\ fh' = [fh EXCEPT ![i] = "none"]
    /\ pos' = [pos EXCEPT ![i] = 0]
    /\ UNCHANGED <<cfg, batch_pc, total_tokens, cancelled, results,
                   slot_writers, returned, acquires, fs>>

\* A task moves on to position pc inside its executor.
Step(i, pc) ==
    /\ task_pc' = [task_pc EXCEPT ![i] = pc]
    /\ UNCHANGED <<cfg, batch_pc, total_tokens, borrowers, cancelled, results,
                   slot_writers, returned, acquires, releases>>

\* ------------------------------------------- download_file / _download_core
IsDownload == call \in {"download_files", "download_file"}

\* f.write(chunk) at offset off of a file opened 'wb'.
WriteAt(content, off, chunk) ==
    IF off < Len(content)
    THEN [content EXCEPT ![off + 1] = chunk]
    ELSE content \o [k \in 1..(off - Len(content)) |-> Hole] \o <<chunk>>

\* expected_size and dest_path.stat().st_size != expected_size
SizeMismatch(expected_size, st_size) ==
    Truthy(expected_size) /\ st_size \notin expected_size

\* download_file after _download_core has returned (success, error, total):
\* the size validation and the return.  newfs is the filesystem then.
DownloadFileReturn(i, success, newfs) ==
    LET f == newfs[inputs[i].dest]
        e == inputs[i].expected_size
    IN  IF success /\ Truthy(e) /\ ~f.exists
        THEN TaskRaises(i)
        ELSE IF success /\ SizeMismatch(e, Len(f.content))
             THEN TaskReturns(i, FALSE)
             ELSE TaskReturns(i, success)

\* except Exception: if dest_path.exists(): dest_path.unlink(); return False
\* unlink may itself fail, and then the error leaves _download_core.
ExceptHandler(i) ==
    LET p == inputs[i].dest IN
    /\ pos' = [pos EXCEPT ![i] = 0]
    /\ IF fs[p].exists
       THEN \E unlink_ok \in BOOLEAN :
              IF unlink_ok
              THEN /\ fs' = [fs EXCEPT ![p] = NoFile]
                   /\ fh' = [j \in Tasks |->
                               IF j = i THEN "none"
                               ELSE IF fh[j] = "open" /\ inputs[j].dest = p
                                    THEN "orphan" ELSE fh[j]]
                   /\ DownloadFileReturn(i, FALSE, fs')
              ELSE /\ fs' = fs
                   /\ fh' = [fh EXCEPT ![i] = "none"]
                   /\ TaskRaises(i)
       ELSE /\ fs' = fs
            /\ fh' = [fh EXCEPT ![i] = "none"]
            /\ DownloadFileReturn(i, FALSE, fs)

\* dest_path.parent.mkdir(parents=True, exist_ok=True), outside the try.
DownloadMkdir(i) ==
    /\ Running /\ IsDownload
    /\ task_pc[i] = "acquired"
    /\ \E mkdir_ok \in BOOLEAN :
         IF mkdir_ok THEN Step(i, "request") ELSE TaskRaises(i)
    /\ UNCHANGED files

\* client.stream('GET', url); response.raise_for_status()
DownloadResponse(i) ==
    /\ Running /\ IsDownload
    /\ task_pc[i] = "request"
    /\ \E transport_ok \in BOOLEAN :
         IF transport_ok /\ Status(inputs[i].url) = 200
         THEN Step(i, "open") /\ UNCHANGED files
         ELSE ExceptHandler(i)

\* anyio.open_file(dest_path, 'wb'): creates the file or truncates it.
DownloadOpen(i) ==
    /\ Running /\ IsDownload
    /\ task_pc[i] = "open"
    /\ \E open_ok \in BOOLEAN :
         IF open_ok
         THEN /\ fs' = [fs EXCEPT ![inputs[i].dest] =
                                     [exists |-> TRUE, content |-> <<>>]]
              /\ fh' = [fh EXCEPT ![i] = "open"]
              /\ pos' = [pos EXCEPT ![i] = 0]
              /\ Step(i, "writing")
         ELSE ExceptHandler(i)

\* async for chunk in response.aiter_bytes(): await f.write(chunk)
\* A task whose file was unlinked meanwhile writes to a file without a name.
DownloadWrite(i) ==
    /\ Running /\ IsDownload
    /\ task_pc[i] = "writing"
    /\ pos[i] < BodyLen(inputs[i].url)
    /\ \E chunk_ok \in BOOLEAN :
         IF chunk_ok
         THEN /\ fs' = IF fh[i] = "open"
                       THEN [fs EXCEPT ![inputs[i].dest].content =
                               WriteAt(@, pos[i], Body(inputs[i].url)[pos[i] + 1])]
                       ELSE fs
              /\ pos' = [pos EXCEPT ![i] = @ + 1]
              /\ fh' = fh
              /\ Step(i, "writing")
         ELSE ExceptHandler(i)

\* End of the stream: the file is closed, _download_core returns
\* (True, None, total_size) and download_file validates the size.
DownloadFinish(i) ==
    /\ Running /\ IsDownload
    /\ task_pc[i] = "writing"
    /\ pos[i] = BodyLen(inputs[i].url)
    /\ fs' = fs
    /\ fh' = [fh EXCEPT ![i] = "none"]
    /\ pos' = [pos EXCEPT ![i] = 0]
    /\ DownloadFileReturn(i, TRUE, fs)

\* ------------------------------------------------------------- shell_cmd
\* anyio.run_process(command, ...): the process could not be launched, and
\* `except Exception` returns (-1, "", str(e)); or it is launched.
ShellSpawn(i) ==
    /\ Running /\ call = "shell_cmds"
    /\ task_pc[i] = "acquired"
    /\ \E spawn_ok \in BOOLEAN :
         IF spawn_ok
         THEN Step(i, "running")
         ELSE TaskReturns(i, <<-1, "", "spawn error">>)
    /\ UNCHANGED files

\* (process.returncode, stdout, stderr) of a launched process: it exits with
\* a code of its own after printing its output, or it is killed by a signal,
\* and returncode is then minus the signal number: -1 for SIGHUP, here
\* before it printed on stdout, with or without a message on stderr.
ProcessOutcomes(cmd) ==
    {<<rc, Stdout(cmd), "">> : rc \in ExitCodes}
        \cup {<<-1, "", e>> : e \in {"", "Hangup"}}

\* The process exits: (returncode, stdout, stderr).
ShellExit(i) ==
    /\ Running /\ call = "shell_cmds"
    /\ task_pc[i] = "running"
    /\ \E r \in ProcessOutcomes(inputs[i].cmd) : TaskReturns(i, r)
    /\ UNCHANGED files

\* ------------------------------------------------- the end of a command
\* Every result counts as a success.
IsSuccessAlways(r) == TRUE

\* `if r` for a download, `if r[0] == 0` for a command.
IsSuccess(r) == IF cli = "download" THEN r = TRUE ELSE r[1] = 0

\* sum(1 for r in results if ...)
SuccessCount(rs) == Cardinality({k \in DOMAIN rs : IsSuccess(rs[k])})

\* len(urls) / len(commands) / len(clone_pairs)
SummaryTotal == IF cli = "shell" THEN Len(inputs) ELSE Len(argv)

\* do_download / do_shell / do_clone after the batch has returned: the
\* summary line; anyio.run returns and the command ends with exit code 0.
\* (With ui_enabled the tasks of shell and git_clone have printed their own
\* lines before; SpecShell has the printing of a task.)
CliSummary ==
    /\ cli # "none"
    /\ batch_pc = "returned"
    /\ exit_code = {}
    /\ echoed' = Append(echoed, [succeeded |-> SuccessCount(results),
                                 total |-> SummaryTotal])
    /\ exit_code' = {0}
    /\ UNCHANGED <<call, max_concurrent, inputs, argv, xvars, svars, gvars, uvars, cli,
                   batch_pc, total_tokens, borrowers, cancelled, task_pc,
                   results, slot_writers, returned, acquires, releases, files>>

\* An exception that leaves the batch (or output.mkdir) leaves anyio.run and
\* the command: a traceback and exit code 1, no summary.
CliCrash ==
    /\ cli # "none"
    /\ batch_pc = "raised"
    /\ exit_code = {}
    /\ exit_code' = {1}
    /\ UNCHANGED <<call, max_concurrent, inputs, argv, xvars, svars, gvars, uvars, cli,
                   echoed, batch_pc, total_tokens, borrowers, cancelled,
                   task_pc, results, slot_writers, returned, acquires,
                   releases, files>>

\* ------------------------------------------------------------------ Spec
Next ==
    \/ CliDownload
    \/ GitClone
    \/ CliSummary
    \/ CliCrash
    \/ CreateLimiter
    \/ StartSoon
    \/ Join
    \/ \E i \in Tasks : Acquire(i)
    \/ \E i \in Tasks : Cancel(i)
    \/ \E i \in Tasks : DownloadMkdir(i)
    \/ \E i \in Tasks : DownloadResponse(i)
    \/ \E i \in Tasks : DownloadOpen(i)
    \/ \E i \in Tasks : DownloadWrite(i)
    \/ \E i \in Tasks : DownloadFinish(i)
    \/ \E i \in Tasks : ShellSpawn(i)
    \/ \E i \in Tasks : ShellExit(i)

Spec == Init /\ [][Next]_vars

\* ================================================================ claims
\* Tasks inside the body of `async with limiter` (executing their executor).
InExecutor == {"acquired", "request", "open", "writing", "running"}
Active == {i \in Tasks : task_pc[i] \in InExecutor}
BatchExited == batch_pc \in {"returned", "raised"}

\* C1: in a batch with max_concurrent = N >= 1 and T inputs, the number of
\* tasks executing their executor (holding the limiter) never exceeds
\* min(N, T).
C1_BoundedConcurrency ==
    (IsBatch /\ max_concurrent >= 1) =>
        /\ Cardinality(Active) <= Min(max_concurrent, Len(inputs))
        /\ Cardinality(borrowers) <= Min(max_concurrent, Len(inputs))

\* C1 witness: the limiter is full (N = 1 active) while another task waits.
C1_Witness ==
    /\ IsBatch
    /\ max_concurrent = 1
    /\ Cardinality(Active) = 1
    /\ \E i \in Tasks : task_pc[i] = "waiting"

\* A value shell_cmd can return for a command: a launch failure, or the
\* command's own output with its exit code.
ShellResultFor(r, cmd) ==
    \/ r = <<-1, "", "spawn error">>
    \/ r \in ProcessOutcomes(cmd)

\* C2: when download_files / shell_cmds returns, the result list has one
\* entry per input, results[i] is the value the executor returned for
\* inputs[i], and slot i was assigned exactly once, by task i.
C2_ResultsAligned ==
    (IsBatch /\ batch_pc = "returned") =>
        /\ Len(results) = Len(inputs)
        /\ \A i \in Tasks :
             /\ returned[i] = {results[i]}
             /\ slot_writers[i] = <<i>>
             /\ call = "shell_cmds" => ShellResultFor(results[i], inputs[i].cmd)
             /\ call = "download_files" => results[i] \in BOOLEAN

\* C2 witness: a returned batch of two commands with different results.
C2_Witness ==
    /\ call = "shell_cmds"
    /\ batch_pc = "returned"
    /\ Len(inputs) = 2
    /\ results[1] # results[2]
    /\ results[1][2] = "one"
    /\ results[2][2] = "two"

\* C3 (as claimed): an executor that raises never makes the batch call
\* raise; the batch still returns normally.
C3_ExecutorErrorNeverEscapes ==
    (IsBatch /\ \E i \in Tasks : task_pc[i] = "raised") => batch_pc # "raised"

\* C4 (as claimed): no launched task is ever cancelled, and when the batch
\* call exits every launched task has run its executor to its end.
C4_NoSiblingCancelled ==
    IsBatch =>
        /\ \A i \in Tasks : task_pc[i] # "cancelled"
        /\ BatchExited => \A i \in Tasks : task_pc[i] \in {"unstarted", "done", "raised"}

\* C5 (as claimed): when a download batch with a failed task returns, every
\* sibling reported True has its destination file, holding its complete body.
C5_FailureLeavesSiblingsIntact ==
    (call = "download_files" /\ batch_pc = "returned"
        /\ \E i \in Tasks : results[i] = FALSE) =>
        \A j \in Tasks :
            results[j] = TRUE =>
                /\ fs[inputs[j].dest].exists
                /\ fs[inputs[j].dest].content = Body(inputs[j].url)

\* C6: a task runs its executor only while it holds the limiter, acquired
\* once before; it gives the limiter back exactly once before it ends, however
\* the executor ended (returned, raised, cancelled); when the batch call
\* exits the limiter's active count is 0.
C6_AcquireRunRelease ==
    IsBatch =>
        /\ \A i \in Tasks :
             /\ task_pc[i] \in {"unstarted", "waiting"} =>
                    i \notin borrowers /\ acquires[i] = 0 /\ releases[i] = 0
             /\ task_pc[i] \in InExecutor =>
                    i \in borrowers /\ acquires[i] = 1 /\ releases[i] = 0
             /\ task_pc[i] \in Terminal =>
                    i \notin borrowers /\ releases[i] = acquires[i]
             /\ task_pc[i] \in {"done", "raised"} => acquires[i] = 1
             /\ returned[i] # {} => releases[i] = 1
        /\ BatchExited => borrowers = {}

\* C6 witness: a batch that exited with an error, one task having raised
\* and another cancelled while it held the limiter.
C6_Witness ==
    /\ IsBatch
    /\ batch_pc = "raised"
    /\ \E i \in Tasks : task_pc[i] = "raised" /\ releases[i] = 1
    /\ \E j \in Tasks : task_pc[j] = "cancelled" /\ releases[j] = 1

\* C7 (as claimed): a batch call with an empty input list never raises.
C7_EmptyBatchNeverRaises ==
    (IsBatch /\ Len(inputs) = 0) => batch_pc # "raised"

\* C7 (amended): with max_concurrent >= 1, a batch call with an empty input
\* list does not raise, launches no task, acquires nothing and returns an
\* empty result list.
C7_EmptyBatchValidLimit ==
    (IsBatch /\ Len(inputs) = 0 /\ max_concurrent >= 1) =>
        /\ batch_pc \in {"start", "joining", "returned"}
        /\ borrowers = {}
        /\ task_pc = <<>>
        /\ acquires = <<>>
        /\ batch_pc = "returned" => results = <<>>

\* C7 witness: an empty batch with a valid limit has returned [].
C7_Witness ==
    /\ IsBatch
    /\ Len(inputs) = 0
    /\ max_concurrent >= 1
    /\ batch_pc = "returned"
    /\ results = <<>>

\* C8 (as claimed): with max_concurrent <= 0 the batch call fails at
\* construction: it never gets past the limiter and no task is launched.
C8_InvalidLimitFailsFast ==
    (IsBatch /\ max_concurrent <= 0) =>
        /\ batch_pc \in {"start", "raised"}
        /\ \A i \in Tasks : task_pc[i] = "unstarted"

\* C9 (as claimed): when download_file returns False, whatever the cause,
\* no file is left at dest_path.
C9_FailureLeavesNoFile ==
    (call = "download_file" /\ batch_pc = "returned" /\ returned[1] = {FALSE}) =>
        ~fs[inputs[1].dest].exists

\* C10 (as claimed): when an expected size (any integer >= 0) was given and
\* the downloaded file's size differs from it, download_file returns False.
C10_SizeMismatchFails ==
    (call = "download_file" /\ batch_pc = "returned"
        /\ inputs[1].expected_size # {}
        /\ fs[inputs[1].dest].exists
        /\ Len(fs[inputs[1].dest].content) \notin inputs[1].expected_size) =>
        returned[1] = {FALSE}

\* C11 (as claimed): no single-task executor ever raises to its caller;
\* here download_file, called on its own.
C11_ExecutorNeverRaises ==
    call = "download_file" => batch_pc # "raised"

\* The Failure outcome of shell_cmd: exit code -1 with an error text.
IsLaunchFailure(r) == r[1] = -1 /\ r[3] # ""

\* C12 (as claimed): shell_cmd returns the Failure outcome exactly when the
\* process could not be launched: a task that returns from the launch itself
\* returns it, and a task whose launched process exits never does.
C12_FailureIffNotLaunched ==
    [][\A i \in Tasks :
         /\ (call = "shell_cmds" /\ task_pc[i] = "acquired" /\ task_pc'[i] = "done")
                => IsLaunchFailure(results'[i])
         /\ (call = "shell_cmds" /\ task_pc[i] = "running" /\ task_pc'[i] = "done")
                => ~IsLaunchFailure(results'[i])]_vars

\* The file at task i's destination holds exactly the body of its URL.
HoldsBody(i) ==
    /\ fs[inputs[i].dest].exists
    /\ fs[inputs[i].dest].content = Body(inputs[i].url)

\* C17 (as claimed): when a download batch returns, every task reported True
\* has its destination file, holding exactly the body served for its URL.
C17_TrueMeansFileComplete ==
    (call = "download_files" /\ batch_pc = "returned") =>
        \A i \in Tasks : results[i] = TRUE => HoldsBody(i)

\* C18 (as claimed): sibling tasks share nothing but the limiter: a result
\* slot is assigned by its own task only, and in a batch built by the
\* download command no two tasks have the same destination file open and no
\* task has its open file deleted by a sibling.
C18_NothingSharedButLimiter ==
    IsBatch =>
        /\ \A k \in DOMAIN slot_writers :
             slot_writers[k] = <<>> \/ slot_writers[k] = <<k>>
        /\ (call = "download_files" /\ argv # <<>>) =>
             \A i \in Tasks :
                /\ fh[i] # "orphan"
                /\ \A j \in Tasks \ {i} :
                     ~(/\ inputs[i].dest = inputs[j].dest
                       /\ fh[i] # "none"
                       /\ fh[j] # "none")

\* ============================================================ extraction
\* extract_zip / extract_tar and the extract command, one call per behaviour.

\* No batch and no download is in progress.
BatchIdle ==
    /\ call = "none"
    /\ argv = <<>>
    /\ max_concurrent = 1
    /\ inputs = <<>>
    /\ batch_pc = "idle"
    /\ total_tokens = 0
    /\ borrowers = {}
    /\ cancelled = FALSE
    /\ task_pc = <<>>
    /\ results = <<>>
    /\ slot_writers = <<>>
    /\ returned = <<>>
    /\ acquires = <<>>
    /\ releases = <<>>
    /\ fs = [p \in Paths |-> NoFile]
    /\ fh = <<>>
    /\ pos = <<>>

\* File names, as the sequences of their characters.
NameZip == <<"a", ".", "z", "i", "p">>
NameZipUpper == <<"A", ".", "Z", "I", "P">>
NameTar == <<"a", ".", "t", "a", "r">>
NameTarGz == <<"a", ".", "t", "a", "r", ".", "g", "z">>
NameTgz == <<"a", ".", "t", "g", "z">>
NameTarBz2 == <<"a", ".", "t", "a", "r", ".", "b", "z", "2">>
NameTarXz == <<"a", ".", "t", "a", "r", ".", "x", "z">>
NameRar == <<"a", ".", "r", "a", "r">>
NameBare == <<"z", "i", "p">>
ArchiveNames == {NameZip, NameZipUpper, NameTar, NameTarGz, NameTgz,
                 NameTarBz2, NameTarXz, NameRar, NameBare}

\* str.lower(), on the letters that occur.
LowerChar(c) ==
    CASE c = "A" -> "a"
      [] c = "Z" -> "z"
      [] c = "I" -> "i"
      [] c = "P" -> "p"
      [] OTHER -> c
Lower(str) == [k \in 1..Len(str) |-> LowerChar(str[k])]

\* str.endswith(suffix)
EndsWith(str, suffix) ==
    /\ Len(str) >= Len(suffix)
    /\ SubSeq(str, Len(str) - Len(suffix) + 1, Len(str)) = suffix

TarSuffixes == {<<".", "t", "a", "r">>,
                <<".", "t", "a", "r", ".", "g", "z">>,
                <<".", "t", "g", "z">>,
                <<".", "t", "a", "r", ".", "b", "z", "2">>,
                <<".", "t", "a", "r", ".", "x", "z">>}

\* The dispatch without the lower-casing of the path.
CliDecoderCaseSensitive(name) ==
    IF EndsWith(name, <<".", "z", "i", "p">>) THEN "zip"
    ELSE IF \E suf \in TarSuffixes : EndsWith(name, suf) THEN "tar"
    ELSE "none"

\* path_str = str(path).lower(); the if / elif / else on path_str.endswith
CliDecoder(name) ==
    IF EndsWith(Lower(name), <<".", "z", "i", "p">>) THEN "zip"
    ELSE IF \E suf \in TarSuffixes : EndsWith(Lower(name), suf) THEN "tar"
    ELSE "none"

\* Member names of an archive: two inside the tree, one climbing out of it
\* with "..", one absolute.
MemberNames == {"f1", "sub/f2", "../out", "/abs"}
EscapingNames == {"../out", "/abs"}
Contents == {"c1", "c2"}
Filters == {"data", "tar", "fully_trusted"}

\* Archives: up to MaxMembers members with different names.
Archives ==
    {m \in SeqUpTo([name : MemberNames, data : Contents], MaxMembers) :
        \A i, j \in 1..Len(m) : i # j => m[i].name # m[j].name}

\* A flattening extraction: the directory part of a member name is dropped.
ResolveFlat(decoder, filter, name) ==
    IF name = "sub/f2" THEN [where |-> "inside", path |-> "f2"]
    ELSE IF name = "f1" THEN [where |-> "inside", path |-> "f1"]
    ELSE IF decoder = "zip" \/ (name = "/abs" /\ filter # "fully_trusted")
         THEN [where |-> "inside", path |-> IF name = "/abs" THEN "abs" ELSE "out"]
    ELSE IF filter = "fully_trusted"
         THEN [where |-> "outside", path |-> name]
    ELSE [where |-> "reject", path |-> name]

\* Where zip_ref.extractall(dest_dir) / tar_ref.extractall(dest_dir,
\* filter=filter) puts a member.  zipfile drops leading slashes and ".."
\* components; tarfile's 'data' and 'tar' filters drop leading slashes and
\* raise for a path that ends outside dest_dir; 'fully_trusted' joins the
\* name to dest_dir as it is.
Resolve(decoder, filter, name) ==
    IF name \notin EscapingNames
    THEN [where |-> "inside", path |-> name]
    ELSE IF decoder = "zip" \/ (name = "/abs" /\ filter # "fully_trusted")
         THEN [where |-> "inside", path |-> IF name = "/abs" THEN "abs" ELSE "out"]
    ELSE IF filter = "fully_trusted"
         THEN [where |-> "outside", path |-> name]
    ELSE [where |-> "reject", path |-> name]

\* Writing a file: it replaces a file of the same path.
PutFile(tree, path, data) ==
    {f \in tree : f[1] # path} \cup {<<path, data>>}

\* The extract command calls extract_zip / extract_tar without ui_enabled,
\* which is then False, the default.
\* archive_at says where zip_path / tar_path points: "elsewhere" is a file
\* outside dest_dir, "f1" is the file dest_dir / "f1" (dest_dir then exists).
ExtractInputs ==
    [entry : {"extract"}, name : ArchiveNames, kind : {"zip", "tar", "garbage"},
     members : Archives, filter : Filters, remove_after : BOOLEAN,
     dest_exists : BOOLEAN, ui_enabled : {FALSE}, archive_at : {"elsewhere"}]
    \cup
    [entry : {"extract_zip"}, name : {NameZip}, kind : {"zip", "tar", "garbage"},
     members : Archives, filter : {"data"}, remove_after : BOOLEAN,
     dest_exists : BOOLEAN, ui_enabled : BOOLEAN, archive_at : {"elsewhere"}]
    \cup
    [entry : {"extract_tar"}, name : {NameTar}, kind : {"zip", "tar", "garbage"},
     members : Archives, filter : Filters, remove_after : BOOLEAN,
     dest_exists : BOOLEAN, ui_enabled : BOOLEAN, archive_at : {"elsewhere"}]
    \cup
    [entry : {"extract_zip", "extract_tar"}, name : {NameZip}, kind : {"zip", "tar"},
     members : Archives, filter : {"data"}, remove_after : BOOLEAN,
     dest_exists : {TRUE}, ui_enabled : {FALSE}, archive_at : {"f1"}]

batchvars == <<call, argv, max_concurrent, inputs, batch_pc, total_tokens,
               borrowers, cancelled, task_pc, results, slot_writers, returned,
               acquires, releases, fs, fh, pos>>

InitExtract ==
    /\ BatchIdle
    /\ ShellIdle
    /\ GitCloneIdle
    /\ UtilIdle
    /\ FrontIdle
    /\ xin \in ExtractInputs
    /\ xpc = IF xin.entry = "extract" THEN "cli" ELSE "mkdir"
    /\ xk = 0
    /\ xfs = [dest_dir |-> xin.dest_exists, tree |-> {}, outside |-> {},
              archive |-> TRUE, archive_data |-> "archive"]
    /\ xout = [decoder |-> CASE xin.entry = "extract_zip" -> "zip"
                             [] xin.entry = "extract_tar" -> "tar"
                             [] OTHER -> "-",
               result |-> {}, error |-> "", printed |-> <<>>]

\* cli.extract: the dispatch on the path's suffix.  An unsupported name
\* prints an error and ends the command.
ExtractCli ==
    /\ xpc = "cli"
    /\ xout' = [xout EXCEPT !.decoder = CliDecoder(xin.name),
                            !.error = IF CliDecoder(xin.name) = "none"
                                      THEN "unsupported format" ELSE "",
                            !.printed = IF CliDecoder(xin.name) = "none"
                                        THEN <<"unsupported format">> ELSE <<>>]
    /\ xpc' = IF CliDecoder(xin.name) = "none" THEN "returned" ELSE "mkdir"
    /\ UNCHANGED <<xin, xk, xfs, batchvars, svars, front, gvars, uvars>>

\* if ui_enabled: console.print(...) in extract_zip / extract_tar
ExtractPrinted(line) == IF xin.ui_enabled THEN <<line>> ELSE <<>>

\* except Exception as e: return (False, str(e)), then the wrapper's
\* message and `return success`.
ExtractFails(err) ==
    /\ xout' = [xout EXCEPT !.result = {FALSE}, !.error = err,
                            !.printed = ExtractPrinted(err)]
    /\ xpc' = "returned"

\* return (True, None), then the wrapper's message and `return success`.
ExtractSucceeds ==
    /\ xout' = [xout EXCEPT !.result = {TRUE},
                            !.printed = ExtractPrinted("Extracted")]
    /\ xpc' = "returned"

\* dest_dir.mkdir(parents=True, exist_ok=True)
ExtractMkdir ==
    /\ xpc = "mkdir"
    /\ \E mkdir_ok \in BOOLEAN :
         IF mkdir_ok
         THEN /\ xfs' = [xfs EXCEPT !.dest_dir = TRUE]
              /\ xpc' = "open"
              /\ UNCHANGED xout
         ELSE ExtractFails("mkdir") /\ UNCHANGED xfs
    /\ UNCHANGED <<xin, xk, batchvars, svars, front, gvars, uvars>>

\* zipfile.ZipFile(zip_path, 'r') / tarfile.open(tar_path, 'r:*'): raises for
\* a file that is not an archive of the decoder's format or cannot be read.
ExtractOpen ==
    /\ xpc = "open"
    /\ \E read_ok \in BOOLEAN :
         IF read_ok /\ xin.kind = xout.decoder
         THEN xpc' = "members" /\ UNCHANGED xout
         ELSE ExtractFails("not an archive")
    /\ UNCHANGED <<xin, xk, xfs, batchvars, svars, front, gvars, uvars>>

\* A member that extractall writes over the archive it is reading.
OverArchive(r) == xfs.archive /\ r.where = "inside" /\ r.path = xin.archive_at

\* extractall, one member: rejected by the filter, written, or a write error.
\* The target is opened with "wb": a member whose target is the archive file
\* itself truncates the archive, and what is read after that comes from the
\* reader's buffer (the member is written in full) or hits the end of the
\* file (the extraction fails with the archive cut short).
ExtractMember ==
    /\ xpc = "members"
    /\ xk < Len(xin.members)
    /\ LET m == xin.members[xk + 1]
           r == Resolve(xout.decoder, xin.filter, m.name)
       IN  IF r.where = "reject"
           THEN ExtractFails("outside destination") /\ UNCHANGED <<xfs, xk>>
           ELSE \E write_ok \in BOOLEAN :
                  IF write_ok
                  THEN /\ xfs' = IF OverArchive(r)
                                 THEN [xfs EXCEPT !.tree = PutFile(@, r.path, m.data),
                                                  !.archive_data = m.data]
                                 ELSE IF r.where = "inside"
                                 THEN [xfs EXCEPT !.tree = PutFile(@, r.path, m.data)]
                                 ELSE [xfs EXCEPT !.outside = PutFile(@, r.path, m.data)]
                       /\ xk' = xk + 1
                       /\ UNCHANGED <<xpc, xout>>
                  ELSE /\ ExtractFails(IF OverArchive(r) THEN "read" ELSE "write")
                       /\ xfs' = IF OverArchive(r)
                                 THEN [xfs EXCEPT !.tree = PutFile(@, r.path, "cut"),
                                                  !.archive_data = "cut"]
                                 ELSE xfs
                       /\ UNCHANGED xk
    /\ UNCHANGED <<xin, batchvars, svars, front, gvars, uvars>>

\* if remove_after and path.exists(): path.unlink();  return (True, None)
\* The unlink is inside the try.
ExtractFinish ==
    /\ xpc = "members"
    /\ xk = Len(xin.members)
    /\ IF xin.remove_after /\ xfs.archive
       THEN \E unlink_ok \in BOOLEAN :
              IF unlink_ok
              THEN /\ xfs' = [xfs EXCEPT
                                    !.archive = FALSE,
                                    !.tree = {f \in @ : f[1] # xin.archive_at}]
                   /\ ExtractSucceeds
              ELSE ExtractFails("unlink") /\ UNCHANGED xfs
       ELSE /\ ExtractSucceeds
            /\ UNCHANGED xfs
    /\ UNCHANGED <<xin, xk, batchvars, svars, front, gvars, uvars>>

NextExtract ==
    \/ ExtractCli
    \/ ExtractMkdir
    \/ ExtractOpen
    \/ ExtractMember
    \/ ExtractFinish

SpecExtract == InitExtract /\ [][NextExtract]_vars

\* ------------------------------------------------------------ C13 .. C16

Returned == xpc = "returned"
HasEscapingEntry == \E k \in 1..Len(xin.members) : xin.members[k].name \in EscapingNames
AllEntriesInside == \A k \in 1..Len(xin.members) : xin.members[k].name \notin EscapingNames
\* The tree an archive was built from: its relative paths with their contents.
TreeOf(members) == {<<members[k].name, members[k].data>> : k \in 1..Len(members)}
\* Errors that come from the file system, not from the archive.
IOErrors == {"mkdir", "not an archive", "read", "write", "unlink"}

\* C13: for ZIP and TAR and every filter, extracting an archive (of the
\* decoder's format) with an entry that resolves outside dest_dir, through
\* ".." or an absolute path, reports Failure, and no file outside dest_dir is
\* ever created or modified.
C13_EscapingEntryFails ==
    /\ xfs # <<>> => xfs.outside = {}
    /\ (Returned /\ xout.decoder = xin.kind /\ HasEscapingEntry)
         => xout.result = {FALSE}

\* C14: when the extraction succeeded and the deletion of the archive asked
\* for by remove_after fails, the call still reports Success and the
\* extracted files remain.
C14_UnlinkFailureStillSuccess ==
    (Returned /\ xout.error = "unlink")
      => /\ xout.result = {TRUE}
         /\ AllEntriesInside => xfs.tree = TreeOf(xin.members)

\* The extract command's effect for a name it does not support: an
\* "unsupported format" diagnostic, no decoder, no result of a decoder,
\* dest_dir as it was, nothing written, the archive still there.
UnsupportedChangesNothing ==
    /\ Returned
    /\ xout = [decoder |-> "none", result |-> {}, error |-> "unsupported format",
               printed |-> <<"unsupported format">>]
    /\ xfs = [dest_dir |-> xin.dest_exists, tree |-> {}, outside |-> {},
              archive |-> TRUE, archive_data |-> "archive"]

\* C15 as stated: the extract command sends a name ending in '.zip' to the
\* ZIP decoder, one ending in '.tar', '.tar.gz', '.tgz', '.tar.bz2' or
\* '.tar.xz' to the TAR decoder, and for any other name fails with
\* "unsupported format" and changes nothing on the file system.
C15_DispatchOnSuffix ==
    (xin # <<>> /\ xin.entry = "extract" /\ xpc # "cli")
      => IF EndsWith(xin.name, <<".", "z", "i", "p">>)
         THEN xout.decoder = "zip"
         ELSE IF \E suf \in TarSuffixes : EndsWith(xin.name, suf)
              THEN xout.decoder = "tar"
              ELSE UnsupportedChangesNothing

\* C15 amended: the same dispatch, with the suffix compared without regard
\* to letter case.
C15_DispatchOnSuffixIgnoringCase ==
    (xin # <<>> /\ xin.entry = "extract" /\ xpc # "cli")
      => IF xin.name \in {NameZip, NameZipUpper}
         THEN xout.decoder = "zip"
         ELSE IF xin.name \in {NameTar, NameTarGz, NameTgz, NameTarBz2, NameTarXz}
              THEN xout.decoder = "tar"
              ELSE UnsupportedChangesNothing

\* C15 witness: the command has refused an unsupported name, with dest_dir
\* absent and the removal of the archive asked for.
C15_Witness ==
    /\ xin # <<>> /\ xin.entry = "extract" /\ xin.name = NameRar
    /\ ~xin.dest_exists /\ xin.remove_after
    /\ UnsupportedChangesNothing

StrEchoOne == <<"echo", "one">>
StrEchoTwoThree == <<"echo", "two", ";", "echo", "three">>
StrNoSuch == <<"nosuch">>
\* ["echo", "two ; echo three"], ["echo", "two", ";", "echo", "three"], ["nosuch"]
ListEchoQuoted == << <<"echo">>, <<"two", ";", "echo", "three">> >>
ListEchoSplit == << <<"echo">>, <<"two">>, <<";">>, <<"echo">>, <<"three">> >>
ListNoSuch == << <<"nosuch">> >>
\* A command that names, and prints, a closing tag of console markup.
StrEchoTag == <<"echo", "[/x]">>
ListEchoTag == << <<"echo">>, <<"[/x]">> >>

\* command: Union[str, List[str]]
ShellCommands ==
    [kind : {"str"}, value : {StrEchoOne, StrEchoTwoThree, StrNoSuch, StrEchoTag}]
    \cup [kind : {"list"}, value : {ListEchoQuoted, ListEchoSplit, ListNoSuch,
                                    ListEchoTag}]

ShellCmdInputs ==
    [command : ShellCommands,
     os_name : {"posix", "nt"},      \* os.name
     posix_env : BOOLEAN,            \* os.environ has MSYSTEM or SHELL
     has_bash : BOOLEAN,             \* shutil.which("bash") finds one
     has_sh : BOOLEAN,               \* shutil.which("sh") finds one
     capture_output : BOOLEAN,
     ui_enabled : BOOLEAN]

\* shutil.which("bash") or shutil.which("sh")
ShellPath(has_bash, has_sh) ==
    IF has_bash THEN {"bash"} ELSE IF has_sh THEN {"sh"} ELSE {}

\* if isinstance(command, str) and os.name == 'nt': ... command =
\* [shell_path, "-c", command]
WrapForWindows(command, os_name, posix_env, shell_path) ==
    IF command.kind = "str" /\ os_name = "nt" /\ posix_env /\ shell_path # {}
    THEN [kind |-> "list",
          value |-> << <<CHOOSE sh \in shell_path : TRUE>>, <<"-c">>, command.value >>]
    ELSE command

\* " ".join(strings)
RECURSIVE Flatten(_)
Flatten(strings) ==
    IF strings = <<>> THEN <<>> ELSE Head(strings) \o Flatten(Tail(strings))

\* A run_process that hands every command to the shell, a list joined.
ViaShellAlways(command) == TRUE

\* anyio.run_process: a string goes to the platform's shell, a list is
\* executed as it is.
ViaShell(command) == command.kind = "str"

ScriptOf(command) ==
    IF command.kind = "str" THEN command.value ELSE Flatten(command.value)

\* /bin/sh -c on POSIX, cmd.exe /c on Windows
PlatformShell(os_name) == IF os_name = "nt" THEN "cmd.exe" ELSE "sh"

\* The commands of a POSIX shell script: its words between the ";".
RECURSIVE SplitCommands(_)
SplitCommands(words) ==
    IF words = <<>> THEN <<>>
    ELSE LET k == CHOOSE n \in 1..(Len(words) + 1) :
                    /\ n = Len(words) + 1 \/ words[n] = ";"
                    /\ \A j \in 1..(n - 1) : words[j] # ";"
             first == SubSeq(words, 1, k - 1)
             rest == SubSeq(words, k + 1, Len(words))
         IN  (IF first = <<>> THEN <<>> ELSE <<first>>) \o SplitCommands(rest)

\* What a shell runs for a script.  sh and bash run each command of the
\* script with its words as arguments; for cmd.exe ";" separates nothing,
\* the script is one command and the rest of the line its one argument.
SimpleCommands(shell, script) ==
    IF shell = "cmd.exe"
    THEN <<[prog |-> <<script[1]>>,
            args |-> IF Len(script) > 1 THEN <<Tail(script)>> ELSE <<>>]>>
    ELSE LET cs == SplitCommands(script)
         IN  [k \in 1..Len(cs) |->
                [prog |-> <<cs[k][1]>>,
                 args |-> [j \in 1..(Len(cs[k]) - 1) |-> <<cs[k][j + 1]>>]]]

\* One command run by a shell: echo prints its arguments on a line, an
\* unknown command prints an error and fails.
RunOne(shell, c) ==
    IF c.prog = <<"echo">>
    THEN [rc |-> 0, out |-> <<Flatten(c.args)>>, err |-> <<>>]
    ELSE [rc |-> IF shell = "cmd.exe" THEN 1 ELSE 127, out |-> <<>>,
          err |-> <<c.prog \o <<"not", "found">> >>]

RECURSIVE RunAll(_, _)
RunAll(shell, cs) ==
    IF cs = <<>> THEN [rc |-> 0, out |-> <<>>, err |-> <<>>]
    ELSE LET r == RunOne(shell, Head(cs))
             rs == RunAll(shell, Tail(cs))
         IN  [rc |-> IF Len(cs) = 1 THEN r.rc ELSE rs.rc,
              out |-> r.out \o rs.out,
              err |-> r.err \o rs.err]

\* A shell interpreting a script.
ShellRun(shell, script) ==
    LET cs == SimpleCommands(shell, script)
        r == RunAll(shell, cs)
    IN  [launched |-> TRUE, shell |-> {[name |-> shell, script |-> script]},
         ran |-> cs, rc |-> r.rc, out |-> r.out, err |-> r.err]

\* An argument list executed directly: echo, a shell given "-c" and a
\* script, or a program that does not exist.
Exec(args) ==
    IF args[1] = <<"echo">>
    THEN [launched |-> TRUE, shell |-> {},
          ran |-> <<[prog |-> args[1], args |-> Tail(args)]>>,
          rc |-> 0, out |-> <<Flatten(Tail(args))>>, err |-> <<>>]
    ELSE IF args[1] \in {<<"bash">>, <<"sh">>} /\ Len(args) = 3 /\ args[2] = <<"-c">>
         THEN ShellRun(args[1][1], args[3])
         ELSE [launched |-> FALSE, shell |-> {}, ran |-> <<>>,
               rc |-> 0 - 1, out |-> <<>>, err |-> <<>>]

\* anyio.run_process(command, ...)
RunProcess(command, os_name) ==
    IF ViaShell(command)
    THEN ShellRun(PlatformShell(os_name), ScriptOf(command)) @@ [exec |-> {}]
    ELSE Exec(command.value) @@ [exec |-> {command.value}]

InitShell ==
    /\ BatchIdle
    /\ ExtractIdle
    /\ GitCloneIdle
    /\ UtilIdle
    /\ FrontIdle
    /\ sin \in ShellCmdInputs
    /\ spc = "wrap"
    /\ sout = [command |-> sin.command, launched |-> FALSE, shell |-> {},
               exec |-> {}, ran |-> <<>>, result |-> {}, printed |-> <<>>,
               launch_ok |-> {}]

\* shell_cmd up to the try: the bash wrapping on Windows.
ShellCmdWrap ==
    /\ spc = "wrap"
    /\ sout' = [sout EXCEPT !.command =
                  WrapForWindows(sin.command, sin.os_name, sin.posix_env,
                                 ShellPath(sin.has_bash, sin.has_sh))]
    /\ spc' = "run"
    /\ UNCHANGED <<sin, batchvars, xvars, front, gvars, uvars>>

\* console.print(text) raises MarkupError for a text with a closing tag that
\* closes nothing: the console reads "[/x]" in the text as markup.
MarkupError(text) == \E k \in 1..Len(text) : text[k] = "[/x]"

\* if ui_enabled: console.print(...)
ShellCmdPrints(args) == args.ui_enabled

\* The try block of shell_cmd and its except branch, for the command handed
\* to run_process and the environment's answer to the launch.
\*   try:     run_process; result; with capture_output and ui_enabled,
\*            console.print(f"Command: {command}: {result}"); return result
\*   except:  with ui_enabled, console.print(f"... {command}: {e}");
\*            return (-1, "", str(e))
\* A MarkupError of the print in the try is caught by the except branch,
\* whose own print quotes the tag and raises again, out of shell_cmd.
ShellCmdTry(args, command, launch_ok) ==
    LET p == RunProcess(command, args.os_name)
        ok == launch_ok /\ p.launched
        result == IF args.capture_output
                  THEN <<p.rc, p.out, p.err>>
                  ELSE <<p.rc, <<>>, <<>> >>
        text == ScriptOf(command) \o Flatten(result[2]) \o Flatten(result[3])
        tryPrints == ok /\ args.capture_output /\ ShellCmdPrints(args)
        tryRaises == tryPrints /\ MarkupError(text)
        exceptPrints == (~ok \/ tryRaises) /\ ShellCmdPrints(args)
        exceptText == ScriptOf(command)
                        \o (IF tryRaises THEN <<"closing", "tag", "[/x]">>
                            ELSE <<"error">>)
        exceptRaises == exceptPrints /\ MarkupError(exceptText)
    IN  [launched |-> ok,
         shell |-> IF ok THEN p.shell ELSE {},
         exec |-> IF ok THEN p.exec ELSE {},
         ran |-> IF ok THEN p.ran ELSE <<>>,
         raised |-> exceptRaises,
         result |-> IF exceptRaises THEN {}
                    ELSE IF ok /\ ~tryRaises THEN {result}
                    ELSE {<<0 - 1, <<>>, << <<"error">> >> >>},
         printed |-> IF tryPrints /\ ~tryRaises THEN <<text>>
                     ELSE IF exceptPrints /\ ~exceptRaises THEN <<exceptText>>
                     ELSE <<>>]

\* The try block of shell_cmd with its except branch, as one step.
ShellCmdRun ==
    /\ spc = "run"
    /\ \E launch_ok \in BOOLEAN :
         \E o \in {ShellCmdTry(sin, sout.command, launch_ok)} :
             /\ sout' = [sout EXCEPT
                           !.launched = o.launched, !.shell = o.shell,
                           !.exec = o.exec, !.ran = o.ran,
                           !.result = o.result, !.printed = o.printed,
                           !.launch_ok = {launch_ok}]
             /\ spc' = IF o.raised THEN "raised" ELSE "returned"
    /\ UNCHANGED <<sin, batchvars, xvars, front, gvars, uvars>>

NextShell ==
    \/ ShellCmdWrap
    \/ ShellCmdRun

SpecShell == InitShell /\ [][NextShell]_vars

\* ------------------------------------------------------------ C19

\* The call has returned and the process had been launched.
ShellCmdRan == spc = "returned" /\ sout.launched

HasWord(lines, w) ==
    \E n \in 1..Len(lines) : \E k \in 1..Len(lines[n]) : lines[n][k] = w

EchoTwo == [prog |-> <<"echo">>, args |-> << <<"two">> >>]
EchoThree == [prog |-> <<"echo">>, args |-> << <<"three">> >>]

\* A string command reached a shell, and that shell got the string as it
\* was given.
StringReachedShellUnaltered ==
    /\ sout.shell # {}
    /\ \A sh \in sout.shell : sh.script = sin.command.value

\* A list command was executed directly, as the list it was given: no shell,
\* the first item the program and the others its arguments, one by one.
ListExecutedDirectly ==
    /\ sout.shell = {}
    /\ sout.exec = {sin.command.value}
    /\ sout.ran = <<[prog |-> sin.command.value[1],
                     args |-> Tail(sin.command.value)]>>

TwoThreeCaptured ==
    \A r \in sout.result : HasWord(r[2], "two") /\ HasWord(r[2], "three")

\* C19 as stated: a string command runs through a shell, unaltered, so that
\* 'echo two ; echo three' runs both commands and the captured output holds
\* both words; a list command runs directly, without a shell and without
\* being joined.
C19_StringViaShellListDirect ==
    ShellCmdRan =>
        IF sin.command.kind = "str"
        THEN /\ StringReachedShellUnaltered
             /\ sin.command.value = StrEchoTwoThree =>
                  /\ sout.ran = <<EchoTwo, EchoThree>>
                  /\ sin.capture_output => TwoThreeCaptured
        ELSE ListExecutedDirectly

\* C19 amended: the same, where 'echo two ; echo three' runs both commands
\* when the shell is a POSIX shell (sh, or bash on Windows); under cmd.exe it
\* is one echo.  The captured output holds both words with every shell.
C19_StringViaShellListDirectPosix ==
    ShellCmdRan =>
        IF sin.command.kind = "str"
        THEN /\ StringReachedShellUnaltered
             /\ sin.command.value = StrEchoTwoThree =>
                  /\ (\A sh \in sout.shell : sh.name # "cmd.exe")
                       => sout.ran = <<EchoTwo, EchoThree>>
                  /\ sin.capture_output => TwoThreeCaptured
        ELSE ListExecutedDirectly

\* C19 witness: on Windows under Git Bash the string 'echo two ; echo three'
\* has been run by bash as two commands and its output captured.
C19_Witness ==
    /\ ShellCmdRan
    /\ sin.command = [kind |-> "str", value |-> StrEchoTwoThree]
    /\ sin.os_name = "nt" /\ sin.capture_output
    /\ sout.shell = {[name |-> "bash", script |-> StrEchoTwoThree]}
    /\ sout.ran = <<EchoTwo, EchoThree>>
    /\ TwoThreeCaptured

\* ------------------------------------------------------------ C20

\* The batch of shell_cmds_git_clone, once its commands are built.
IsCloneBatch == call = "shell_cmds" /\ argv # <<>>

\* C20: shell_cmds_git_clone makes one command per (url, dest) pair, in the
\* order of the pairs: ['git', 'clone', url], followed by dest exactly when
\* dest is neither None nor empty; the list it returns has one result per
\* pair, the result at index i being that of pair i's command.
C20_OneCloneCommandPerPair ==
    IsCloneBatch =>
        /\ Len(inputs) = Len(argv)
        /\ \A i \in 1..Len(argv) :
             IF argv[i].dest \in {{}, {""}}
             THEN inputs[i].argv = <<"git", "clone", argv[i].url>>
             ELSE \E d \in argv[i].dest :
                    inputs[i].argv = <<"git", "clone", argv[i].url, d>>
        /\ batch_pc = "returned" =>
             /\ Len(results) = Len(argv)
             /\ \A i \in 1..Len(argv) :
                  /\ returned[i] = {results[i]}
                  /\ ShellResultFor(results[i], inputs[i].cmd)

\* C20 witness: two clones, the first with a dest and the second with an
\* empty one, have returned their results, a success and a failure.
C20_Witness ==
    /\ IsCloneBatch /\ batch_pc = "returned"
    /\ Len(argv) = 2
    /\ argv[1].dest = {"d1"} /\ argv[2].dest = {""}
    /\ inputs[1].argv = <<"git", "clone", argv[1].url, "d1">>
    /\ inputs[2].argv = <<"git", "clone", argv[2].url>>
    /\ results[1][1] = 0 /\ results[2][1] = 1

\* ============================================================ git_clone
\* The git_clone command of the front end: its arguments are split into
\* (url, dest) pairs, which are handed to shell_cmds_git_clone.

MaxArgs == 5         \* longest argument list of the git_clone command

Tokens == {"r1", "d1", ",", "|"}

GitCloneInputs ==
    [args : SeqUpTo(Tokens, MaxArgs) \ {<<>>},   \* nargs=-1, required=True
     separator : {",", "|"},
     concurrent : {1, MaxConcurrent}]

\* A group is never refused.
InvalidGroupNever(group) == FALSE

\* elif len(group) > 2: raise click.UsageError(...)
InvalidGroup(group) == Len(group) > 2

\* add_pair(group): what it appends to clone_pairs.
PairsOf(group) ==
    CASE Len(group) = 1 -> <<[url |-> group[1], dest |-> {""}]>>
      [] Len(group) = 2 -> <<[url |-> group[1], dest |-> {group[2]}]>>
      [] OTHER -> <<>>

InitGitClone ==
    /\ BatchIdle
    /\ ExtractIdle
    /\ ShellIdle
    /\ FrontIdle
    /\ UtilIdle
    /\ gin \in GitCloneInputs
    /\ gpc = "loop"
    /\ gst = [k |-> 0, current_group |-> <<>>, clone_pairs |-> <<>>,
              printed |-> <<>>, calls |-> 0]

\* except click.UsageError as e: click.secho(str(e), fg="red"); return
GitCloneUsageError ==
    /\ gst' = [gst EXCEPT !.printed = Append(@, "Invalid group")]
    /\ gpc' = "returned"
    /\ exit_code' = {0}

\* One turn of `for arg in args`.
GitCloneArg ==
    /\ gpc = "loop"
    /\ gst.k < Len(gin.args)
    /\ LET arg == gin.args[gst.k + 1]
       IN  IF arg = gin.separator
           THEN IF InvalidGroup(gst.current_group)
                THEN GitCloneUsageError
                ELSE /\ gst' = [gst EXCEPT
                                  !.k = @ + 1,
                                  !.clone_pairs = @ \o PairsOf(gst.current_group),
                                  !.current_group = <<>>]
                     /\ UNCHANGED <<gpc, exit_code>>
           ELSE /\ gst' = [gst EXCEPT !.k = @ + 1,
                                      !.current_group = Append(@, arg)]
                /\ UNCHANGED <<gpc, exit_code>>
    /\ UNCHANGED <<gin, batchvars, xvars, svars, uvars, cli, echoed>>

\* add_pair(current_group) after the loop.
GitCloneLastGroup ==
    /\ gpc = "loop"
    /\ gst.k = Len(gin.args)
    /\ IF InvalidGroup(gst.current_group)
       THEN GitCloneUsageError
       ELSE /\ gst' = [gst EXCEPT
                         !.clone_pairs = @ \o PairsOf(gst.current_group),
                         !.current_group = <<>>]
            /\ gpc' = "check"
            /\ UNCHANGED exit_code
    /\ UNCHANGED <<gin, batchvars, xvars, svars, uvars, cli, echoed>>

\* if not clone_pairs: click.secho("Error: No valid URL/DEST pairs ..."); return
GitCloneCheck ==
    /\ gpc = "check"
    /\ IF gst.clone_pairs = <<>>
       THEN /\ gst' = [gst EXCEPT !.printed = Append(@, "No valid URL/DEST pairs")]
            /\ gpc' = "returned"
            /\ exit_code' = {0}
       ELSE /\ gpc' = "run"
            /\ UNCHANGED <<gst, exit_code>>
    /\ UNCHANGED <<gin, batchvars, xvars, svars, uvars, cli, echoed>>

\* anyio.run(do_clone): shell_cmds_git_clone is called with clone_pairs and
\* max_concurrent=concurrent.  The call itself is the behaviour of Spec that
\* starts with these values.
GitCloneRun ==
    /\ gpc = "run"
    /\ gst' = [gst EXCEPT !.calls = @ + 1]
    /\ gpc' = "called"
    /\ call' = "shell_cmds_git_clone"
    /\ argv' = gst.clone_pairs
    /\ max_concurrent' = gin.concurrent
    /\ batch_pc' = "clone"
    /\ cli' = "git_clone"
    /\ UNCHANGED <<gin, inputs, total_tokens, borrowers, cancelled, task_pc,
                   results, slot_writers, returned, acquires, releases, fs,
                   fh, pos, xvars, svars, uvars, echoed, exit_code>>

NextGitClone ==
    \/ GitCloneArg
    \/ GitCloneLastGroup
    \/ GitCloneCheck
    \/ GitCloneRun

SpecGitClone == InitGitClone /\ [][NextGitClone]_vars

\* ------------------------------------------------------------ C21

\* The groups of an argument list: the tokens between the separators, in
\* order, the empty groups included.
RECURSIVE Groups(_, _)
Groups(args, sep) ==
    IF \A k \in 1..Len(args) : args[k] # sep
    THEN <<args>>
    ELSE LET n == CHOOSE k \in 1..Len(args) :
                    args[k] = sep /\ \A j \in 1..(k - 1) : args[j] # sep
         IN  <<SubSeq(args, 1, n - 1)>> \o Groups(SubSeq(args, n + 1, Len(args)), sep)

\* The pairs of a sequence of groups: (url, "") for one token, (url, dest)
\* for two, nothing for an empty group.
RECURSIVE GroupPairs(_)
GroupPairs(gs) ==
    IF gs = <<>> THEN <<>>
    ELSE (CASE Len(Head(gs)) = 0 -> <<>>
            [] Len(Head(gs)) = 1 -> <<[url |-> Head(gs)[1], dest |-> {""}]>>
            [] OTHER -> <<[url |-> Head(gs)[1], dest |-> {Head(gs)[2]}]>>)
         \o GroupPairs(Tail(gs))

GitCloneEnded == gpc \in {"called", "returned"}

\* C21: git_clone splits its arguments at every token equal to the separator
\* into groups; a one-token group is (url, ""), a two-token group (url, dest),
\* an empty group is skipped; the runner is called exactly once, with these
\* pairs in argument order.  A group of more than two tokens prints 'Invalid
\* group' and nothing is run; when no pair results the runner is not called.
C21_GroupsBecomePairs ==
    /\ gst # <<>> => gst.calls <= 1
    /\ GitCloneEnded =>
         LET gs == Groups(gin.args, gin.separator)
         IN  IF \E n \in 1..Len(gs) : Len(gs[n]) > 2
             THEN /\ gpc = "returned"
                  /\ gst.calls = 0 /\ call = "none"
                  /\ gst.printed = <<"Invalid group">>
             ELSE IF GroupPairs(gs) = <<>>
                  THEN /\ gpc = "returned"
                       /\ gst.calls = 0 /\ call = "none"
                       /\ gst.printed = <<"No valid URL/DEST pairs">>
                  ELSE /\ gpc = "called"
                       /\ gst.calls = 1 /\ call = "shell_cmds_git_clone"
                       /\ argv = GroupPairs(gs)
                       /\ gst.printed = <<>>

\* C21 witness: 'r1 , r1 d1 d1' with the separator ',' has ended with
\* 'Invalid group' and without a call of the runner, although its first
\* group was valid.
C21_Witness ==
    /\ gpc = "returned"
    /\ gin.args = <<"r1", ",", "r1", "d1", "d1">> /\ gin.separator = ","
    /\ gst.printed = <<"Invalid group">>
    /\ gst.calls = 0 /\ call = "none"

\* ------------------------------------------------------------ C22

\* C22: when the batch of a download, shell or git_clone command has run to
\* completion the command ends with exit code 0, whatever the results, and
\* has written one summary line: the number of results that are a success
\* (True for a download, exit code 0 for a command) and the number of inputs.
C22_SummaryCountsSuccesses ==
    (cli # "none" /\ batch_pc = "returned") =>
        IF exit_code = {}
        THEN echoed = <<>>
        ELSE /\ exit_code = {0}
             /\ Len(echoed) = 1
             /\ echoed[1].total = Len(inputs)
             /\ echoed[1].succeeded =
                  Cardinality({i \in Tasks :
                      IF call = "download_files" THEN results[i] = TRUE
                      ELSE results[i][1] = 0})

\* C22 witness: a shell command of two inputs has ended with exit code 0
\* and '1 succeeded' of 2, one command having failed.
C22_Witness ==
    /\ cli = "shell" /\ exit_code = {0}
    /\ Len(inputs) = 2
    /\ results[1][1] = 0 /\ results[2][1] # 0
    /\ echoed = <<[succeeded |-> 1, total |-> 2]>>

\* ------------------------------------------------------------ C23

\* C23: for every task that fails the front end prints the task's
\* diagnostic; here for the extract command: a failed extraction is never
\* silent.
C23_FailedExtractionIsPrinted ==
    (xin # <<>> /\ xin.entry = "extract" /\ Returned /\ xout.result = {FALSE})
      => xout.printed = <<xout.error>>

\* ------------------------------------------------------------ C24

\* C24: headless equivalence, for shell_cmd as shell_cmds calls it: with the
\* same command and the same answer of the environment, the call returns
\* with ui_enabled what it returns without, and does not raise.
C24_HeadlessEquivalence ==
    spc \in {"returned", "raised"} =>
        \A launch_ok \in sout.launch_ok :
            LET headless == ShellCmdTry([sin EXCEPT !.ui_enabled = FALSE],
                                        sout.command, launch_ok)
            IN  /\ spc = "returned"
                /\ sout.result = headless.result

\* ---------------------------------------------------- remove_directory

\* How many times remove_directory is called on the same path, one call
\* after the other.
MaxCalls == 2

\* dir_path: a plain path, and a path whose text holds a closing tag of
\* console markup (the directory "x]" inside the directory "[").
DirPaths == {"d", "[/x]"}

\* What is at dir_path when the first call starts: nothing, a regular file,
\* or a directory with some entries under it.
DirStates ==
    {[kind |-> "absent", entries |-> {}], [kind |-> "file", entries |-> {}]}
    \cup [kind : {"dir"}, entries : SUBSET {"f1", "f2"}]

RemoveInputs == [dir_path : DirPaths, ui_enabled : BOOLEAN]

InitRemove ==
    /\ BatchIdle
    /\ ExtractIdle
    /\ ShellIdle
    /\ GitCloneIdle
    /\ FrontIdle
    /\ uin \in RemoveInputs
    /\ ufs \in DirStates
    /\ upc = "exists"
    /\ uout = [calls |-> <<>>, before |-> ufs, printed |-> <<>>]

\* remove_directory ends: it returns result, or an exception leaves it.
RemoveEnds(result, raised, line) ==
    /\ upc' = IF raised THEN "raised" ELSE "returned"
    /\ uout' = [uout EXCEPT
                  !.calls = Append(@, [before |-> uout.before, after |-> ufs,
                                       result |-> result, raised |-> raised]),
                  !.printed = @ \o line]

\* if not dir_path.exists(): return True
RemoveDirectoryExists ==
    /\ upc = "exists"
    /\ IF ufs.kind = "absent"
       THEN RemoveEnds({TRUE}, FALSE, <<>>)
       ELSE /\ upc' = "status"
            /\ UNCHANGED uout
    /\ UNCHANGED <<uin, ufs, batchvars, xvars, svars, front, gvars>>

\* status_ctx = _console.status(f"[cyan]Removing {dir_path}...") if ui_enabled
\* else nullcontext(): the status parses its text as markup when it is made.
RemoveDirectoryStatus ==
    /\ upc = "status"
    /\ upc' = IF uin.ui_enabled /\ MarkupError(<<uin.dir_path>>)
              THEN "except" ELSE "rmtree"
    /\ UNCHANGED <<uin, ufs, uout, batchvars, xvars, svars, front, gvars>>

\* shutil.rmtree(dir_path): it raises for a path that is no directory, it
\* removes the entries one by one and then the directory, and any removal
\* may fail and leave the rest in place.
RemoveDirectoryRmtree ==
    /\ upc = "rmtree"
    /\ \E ok \in BOOLEAN :
         IF ufs.kind = "file" \/ ~ok
         THEN upc' = "except" /\ UNCHANGED ufs
         ELSE IF ufs.entries # {}
              THEN /\ \E e \in ufs.entries :
                        ufs' = [ufs EXCEPT !.entries = @ \ {e}]
                   /\ UNCHANGED upc
              ELSE /\ ufs' = [ufs EXCEPT !.kind = "absent"]
                   /\ upc' = "print"
    /\ UNCHANGED <<uin, uout, batchvars, xvars, svars, front, gvars>>

\* if ui_enabled: _console.print(f"... Removed {dir_path}"); return True
RemoveDirectoryPrint ==
    /\ upc = "print"
    /\ IF uin.ui_enabled /\ MarkupError(<<uin.dir_path>>)
       THEN upc' = "except" /\ UNCHANGED uout
       ELSE RemoveEnds({TRUE}, FALSE,
                       IF uin.ui_enabled THEN <<"removed">> ELSE <<>>)
    /\ UNCHANGED <<uin, ufs, batchvars, xvars, svars, front, gvars>>

\* except Exception as e: if ui_enabled: _console.print(f"[red]Error
\* removing {dir_path}: {e}"); return False.  The print is outside any try.
RemoveDirectoryExcept ==
    /\ upc = "except"
    /\ IF uin.ui_enabled /\ MarkupError(<<uin.dir_path>>)
       THEN RemoveEnds({}, TRUE, <<>>)
       ELSE RemoveEnds({FALSE}, FALSE,
                       IF uin.ui_enabled THEN <<"error">> ELSE <<>>)
    /\ UNCHANGED <<uin, ufs, batchvars, xvars, svars, front, gvars>>

\* The caller calls remove_directory again with the same arguments.
RemoveDirectoryAgain ==
    /\ upc = "returned"
    /\ Len(uout.calls) < MaxCalls
    /\ upc' = "exists"
    /\ uout' = [uout EXCEPT !.before = ufs]
    /\ UNCHANGED <<uin, ufs, batchvars, xvars, svars, front, gvars>>

NextRemove ==
    \/ RemoveDirectoryExists
    \/ RemoveDirectoryStatus
    \/ RemoveDirectoryRmtree
    \/ RemoveDirectoryPrint
    \/ RemoveDirectoryExcept
    \/ RemoveDirectoryAgain

SpecRemove == InitRemove /\ [][NextRemove]_vars

\* ------------------------------------------------------------ C25

\* C25: every call of remove_directory returns and none raises; a call on a
\* path that does not exist returns True and changes nothing; after a call
\* that returns True nothing is left at the path; the call after one that
\* returned True returns True as well.
C25_RemoveDirectoryTotal ==
    /\ upc # "raised"
    /\ \A k \in 1..Len(uout.calls) :
         LET c == uout.calls[k]
         IN  /\ ~c.raised
             /\ c.before.kind = "absent" =>
                    c.result = {TRUE} /\ c.after = c.before
             /\ c.result = {TRUE} =>
                    c.after.kind = "absent" /\ c.after.entries = {}
             /\ (k > 1 /\ uout.calls[k - 1].result = {TRUE}) =>
                    c.result = {TRUE}

\* ---------------------------------------------------- check_file_size

\* The largest size, of the file and expected, that is tried.
MaxSize == 4

\* tolerance as a fraction num / den: 0, 1/10, 1/2 and 1.
Tolerances == {[num |-> 0, den |-> 1], [num |-> 1, den |-> 10],
               [num |-> 1, den |-> 2], [num |-> 1, den |-> 1]}

Abs(n) == IF n < 0 THEN 0 - n ELSE n

CheckFileSizeInputs ==
    [exists : BOOLEAN, actual_size : 0..MaxSize, expected_size : 0..MaxSize,
     tolerance : Tolerances]

\* check_file_size(file_path, expected_size, tolerance):
\*   if not file_path.exists(): return False
\*   diff_ratio = abs(actual_size - expected_size) / expected_size
\*   return diff_ratio <= tolerance
\* The division raises ZeroDivisionError for expected_size = 0; for a
\* positive expected_size the quotient is compared as a fraction.
check_file_size(args) ==
    IF ~args.exists
    THEN [result |-> {FALSE}, raised |-> FALSE]
    ELSE IF args.expected_size = 0
         THEN [result |-> {}, raised |-> TRUE]
         ELSE [result |-> {Abs(args.actual_size - args.expected_size)
                                * args.tolerance.den
                             <= args.tolerance.num * args.expected_size},
               raised |-> FALSE]

InitCheckSize ==
    /\ BatchIdle
    /\ ExtractIdle
    /\ ShellIdle
    /\ GitCloneIdle
    /\ FrontIdle
    /\ uin \in CheckFileSizeInputs
    /\ ufs = [exists |-> uin.exists, size |-> uin.actual_size]
    /\ upc = "call"
    /\ uout = <<>>

\* One call of check_file_size.
CheckFileSizeCall ==
    /\ upc = "call"
    /\ uout' = check_file_size(uin)
    /\ upc' = IF uout'.raised THEN "raised" ELSE "returned"
    /\ UNCHANGED <<uin, ufs, batchvars, xvars, svars, front, gvars>>

NextCheckSize == CheckFileSizeCall

SpecCheckSize == InitCheckSize /\ [][NextCheckSize]_vars

\* ------------------------------------------------------------ C26

\* C26: check_file_size never raises, returns False for a file that does
\* not exist, and for a file that exists returns True exactly when
\* |actual_size - expected_size| <= tolerance * expected_size, expected_size
\* = 0 included.
C26_WithinToleranceExactly ==
    upc \in {"returned", "raised"} =>
        /\ upc = "returned"
        /\ ~uin.exists => uout.result = {FALSE}
        /\ uin.exists =>
             uout.result = {Abs(uin.actual_size - uin.expected_size)
                                * uin.tolerance.den
                              <= uin.tolerance.num * uin.expected_size}

\* ------------------------------------------------------------ C27

\* The batch under fair scheduling: the event loop runs a task that can run,
\* and every awaited call of an executor (response, open, write, spawn, exit)
\* comes back, so a step that stays possible is eventually taken.
SpecLive == Init /\ [][Next]_vars /\ WF_vars(Next)

\* C27: with max_concurrent >= 1 a batch that has started eventually returns,
\* and every task waiting for the limiter eventually acquires it.
C27_BatchReturnsAllAcquire ==
    /\ (IsBatch /\ max_concurrent >= 1 /\ batch_pc = "start")
          ~> (batch_pc = "returned")
    /\ \A i \in 1..MaxTasks :
          (IsBatch /\ max_concurrent >= 1 /\ i \in Tasks
             /\ task_pc[i] = "waiting")
          ~> (i \in Tasks /\ acquires[i] >= 1)

\* ------------------------------------------------------------ C28

\* C28: when extract_zip / extract_tar has returned, the archive is gone only
\* if the extraction succeeded and remove_after was set; after a failed
\* extraction, and whenever remove_after is false, the archive file exists
\* with the bytes it had.
C28_ArchiveKeptUnlessRemoved ==
    (Returned /\ xout.decoder \in {"zip", "tar"})
      => /\ ~xfs.archive => (xout.result = {TRUE} /\ xin.remove_after)
         /\ (xout.result = {FALSE} \/ ~xin.remove_after)
              => (xfs.archive /\ xfs.archive_data = "archive")

====
